---- MODULE Spec2Model ----
(***************************************************************************)
(* Task tracking and log reconciliation of the file-processor frontend:    *)
(*   - the history store kept in localStorage (utils/history.js),          *)
(*   - the Parser page's startParsing / pollLogs loop (pages/Parser.jsx),  *)
(*   - the React state of the Parser page that the loop reads and writes.  *)
(***************************************************************************)
EXTENDS Integers, Sequences, FiniteSets, TLC

VARIABLES
    history,    \* parsed content of localStorage['fileProcessorHistory']
    nextId,     \* number of uuids handed out so far (uuidv4 is fresh each call)
    now,        \* the wall clock read by new Date()
    gen,        \* which Parser component instance is mounted
    comp,       \* per instance: React state logs/loading, in-flight submission,
                \* and the list held by its History view
    poller,     \* per started job: the pollLogs closure and where it is suspended;
                \* streak = how many of its latest fetches in a row timed out,
                \* delivered = the messages the backend has handed over so far
    started,    \* number of successful submissions (task ids handed out)
    failedSubs, \* number of failed submissions
    event,      \* the handler that ran in the last step, with its input
    calls       \* store calls made by the last step, in call order

vars == <<history, nextId, now, gen, comp, poller, started, failedSubs,
          event, calls>>

----------------------------------------------------------------------------
(* Bounds of the model *)

MaxJobs == 2        \* successful submissions in Spec
SoloJobs == 1       \* successful submissions in SpecRetry and SpecCap
MaxMounts == 2      \* Parser instances mounted one after another
MaxPolls == 1       \* "running" answers per job
MaxCapSubs == 101   \* failed submissions in SpecCap
MaxApiCalls == 3    \* store calls in SpecStore
MaxApiTasks == 2    \* task ids used in SpecStore
MaxLogLen == 2      \* length of a log list handed to the store in SpecStore

(* Program constants *)

MAX_HISTORY_ITEMS == 100
maxAttempts == 10

----------------------------------------------------------------------------
(* Values *)

NoKey == "<nokey>"          \* key not given in an updates object
Undef == "<undefined>"      \* JS undefined / key absent after JSON round trip
Null == "<null>"
NoTs == 0                   \* an event without timestamp
NoRec == [id |-> 0]

Ev(m, t, ts) == [message |-> m, type |-> t, timestamp |-> ts]

Messages(logs) == {logs[i].message : i \in 1..Len(logs)}

NoDupMessages(logs) ==
    \A i, k \in 1..Len(logs) : logs[i].message = logs[k].message => i = k

(* new Date(ts).getTime(): timestamps are carried as their epoch value *)
GetTime(ts) == ts

(* the sort key of saveCompleteLogsToHistory's comparator *)
TimeKey(e) == IF e.timestamp = NoTs THEN 0 ELSE GetTime(e.timestamp)

IsSortedByTime(logs) ==
    \A i, k \in 1..Len(logs) : i < k => TimeKey(logs[i]) <= TimeKey(logs[k])

----------------------------------------------------------------------------
(* History store: utils/history.js *)

FindIndexHead(h, taskId, i) == IF Len(h) = 0 THEN 0 ELSE 1

RECURSIVE FindIndex(_, _, _)
FindIndex(h, taskId, i) ==
    IF i > Len(h) THEN 0
    ELSE IF h[i].taskId = taskId THEN i
    ELSE FindIndex(h, taskId, i + 1)

RecordOf(h, taskId) ==
    IF FindIndex(h, taskId, 1) = 0 THEN NoRec ELSE h[FindIndex(h, taskId, 1)]

TruncatedOffByOne(h) ==
    IF Len(h) > MAX_HISTORY_ITEMS + 1 THEN SubSeq(h, 1, MAX_HISTORY_ITEMS + 1) ELSE h

Truncated(h) ==
    IF Len(h) > MAX_HISTORY_ITEMS THEN SubSeq(h, 1, MAX_HISTORY_ITEMS) ELSE h

HistoryItem(id, taskData) ==
    [id |-> id,
     taskId |-> taskData.taskId,
     status |-> IF taskData.status = NoKey THEN "running" ELSE taskData.status,
     logs |-> taskData.logs,
     allLogs |-> <<>>,
     result |-> Null,
     error |-> IF taskData.error = NoKey THEN Null ELSE taskData.error,
     endTime |-> 0]

saveToHistory(h, id, taskData) == Truncated(<<HistoryItem(id, taskData)>> \o h)

FilterNewKeepsAll(logs, seen) == logs

FilterNew(logs, seen) == SelectSeq(logs, LAMBDA l : l.message \notin seen)

MergedLogs(existingLogs, updates) ==
    IF updates.hasLogs /\ Len(updates.logs) > 0
    THEN existingLogs \o FilterNew(updates.logs, Messages(existingLogs))
    ELSE IF updates.hasLogs THEN updates.logs
    ELSE existingLogs

Spread(item, updates) ==
    [id |-> item.id,
     taskId |-> item.taskId,
     status |-> IF updates.status = NoKey THEN item.status ELSE updates.status,
     logs |-> MergedLogs(item.logs, updates),
     allLogs |-> item.allLogs,
     result |-> IF updates.result = NoKey THEN item.result ELSE updates.result,
     error |-> IF updates.error = NoKey THEN item.error ELSE updates.error,
     endTime |-> IF updates.endTime = 0 THEN item.endTime ELSE updates.endTime]

updateHistoryItemUpsert(h, taskId, updates) ==
    LET itemIndex == FindIndex(h, taskId, 1) IN
    IF itemIndex = 0
    THEN <<Spread([id |-> 0, taskId |-> taskId, status |-> "running",
                   logs |-> <<>>, allLogs |-> <<>>, result |-> Null,
                   error |-> Null, endTime |-> 0], updates)>> \o h
    ELSE [h EXCEPT ![itemIndex] = Spread(h[itemIndex], updates)]

updateHistoryItemMoveToFront(h, taskId, updates) ==
    LET itemIndex == FindIndex(h, taskId, 1) IN
    IF itemIndex = 0 THEN h
    ELSE <<Spread(h[itemIndex], updates)>>
         \o SubSeq(h, 1, itemIndex - 1) \o SubSeq(h, itemIndex + 1, Len(h))

updateHistoryItem(h, taskId, updates) ==
    LET itemIndex == FindIndex(h, taskId, 1) IN
    IF itemIndex = 0 THEN h
    ELSE [h EXCEPT ![itemIndex] = Spread(h[itemIndex], updates)]

RECURSIVE UniqueLogs(_, _, _)
UniqueLogs(allLogs, seenMessages, uniqueLogs) ==
    IF allLogs = <<>> THEN uniqueLogs
    ELSE IF Head(allLogs).message \in seenMessages
         THEN UniqueLogs(Tail(allLogs), seenMessages, uniqueLogs)
         ELSE UniqueLogs(Tail(allLogs), seenMessages \cup {Head(allLogs).message},
                         Append(uniqueLogs, Head(allLogs)))

(* Array.prototype.sort is stable: an element goes after every element *)
(* already placed that the comparator does not order after it.         *)
RECURSIVE InsertByTimeUnstable(_, _)
InsertByTimeUnstable(sorted, e) ==
    IF sorted = <<>> THEN <<e>>
    ELSE IF TimeKey(Head(sorted)) - TimeKey(e) >= 0 THEN <<e>> \o sorted
    ELSE <<Head(sorted)>> \o InsertByTimeUnstable(Tail(sorted), e)

RECURSIVE InsertByTime(_, _)
InsertByTime(sorted, e) ==
    IF sorted = <<>> THEN <<e>>
    ELSE IF TimeKey(Head(sorted)) - TimeKey(e) > 0 THEN <<e>> \o sorted
    ELSE <<Head(sorted)>> \o InsertByTime(Tail(sorted), e)

RECURSIVE SortByTime(_, _)
SortByTime(logs, sorted) ==
    IF logs = <<>> THEN sorted
    ELSE SortByTime(Tail(logs), InsertByTime(sorted, Head(logs)))

ConcatForDump(backendLogs, existingLogs) == backendLogs \o existingLogs

CompleteLogs(existingLogs, backendLogs) ==
    SortByTime(UniqueLogs(ConcatForDump(backendLogs, existingLogs), {}, <<>>), <<>>)

saveCompleteLogsToHistory(h, taskId, backendLogs) ==
    LET itemIndex == FindIndex(h, taskId, 1) IN
    IF itemIndex = 0 THEN h
    ELSE [h EXCEPT ![itemIndex] =
            [h[itemIndex] EXCEPT
                !.logs = CompleteLogs(h[itemIndex].logs, backendLogs),
                !.allLogs = backendLogs]]

----------------------------------------------------------------------------
(* Store calls of one step, recorded in call order *)

Evicted(before, after) ==
    IF Len(before) >= 1 /\ FindIndex(after, before[Len(before)].taskId, 1) = 0
    THEN before[Len(before)] ELSE NoRec

Call(op, job, taskId, arg, before, after) ==
    [op |-> op, job |-> job, taskId |-> taskId, arg |-> arg,
     before |-> RecordOf(before, taskId), after |-> RecordOf(after, taskId),
     evicted |-> IF op = "save" THEN Evicted(before, after) ELSE NoRec]

(* the handler that ran, the job or record it ran for, and its input *)
Event(kind, id, arg) == [kind |-> kind, id |-> id, param |-> arg]

NoUpdates ==
    [status |-> NoKey, endTime |-> 0, hasLogs |-> FALSE, logs |-> <<>>,
     result |-> NoKey, error |-> NoKey]

----------------------------------------------------------------------------
(* What the job backend may answer *)

eA == Ev("a", "info", 2)
eB == Ev("b", "info", 3)
eA2 == Ev("a", "error", 3)
eN == Ev("n", "info", NoTs)
eE == Ev("e", "error", 4)

PollLogs == {<<>>, <<eA>>, <<eN, eN>>}
PollStatus == {"running", "completed", "failed", Undef}
Dumps == {<<>>, <<eA, eB>>, <<eA2, eN>>}
PollErrors == {"ECONNABORTED", "ERR_NETWORK"}

(* an answer that carries the backend's own error event *)
PollLogsWithError == PollLogs \cup {<<eE>>}

(* err.message of an axios error *)
ErrMessage(code) ==
    IF code = "ECONNABORTED" THEN "timeout of 15000ms exceeded" ELSE "Network Error"

IsTerminal(status) == status \in {"completed", "failed"}

----------------------------------------------------------------------------
(* Parser page: React state and the pollLogs closure *)

FreshComp ==
    [logs |-> <<>>, loading |-> FALSE, posting |-> FALSE, clickLogs |-> <<>>,
     stale |-> FALSE, view |-> <<>>]

IdlePoller ==
    [pc |-> "idle", attempt |-> 0, gen |-> 0, logs |-> <<>>, polls |-> 0,
     status |-> Undef, streak |-> 0, delivered |-> {}]

Init ==
    /\ history = <<>>
    /\ nextId = 0
    /\ now = 1
    /\ gen = 1
    /\ comp = [g \in 1..MaxMounts |-> FreshComp]
    /\ poller = [j \in 1..MaxJobs |-> IdlePoller]
    /\ started = 0
    /\ failedSubs = 0
    /\ event = Event("init", 0, 0)
    /\ calls = <<>>

(* the button is enabled on the rendered state: loading false *)
StartParsing(jobLimit, failLimit) ==
    /\ ~comp[gen].loading
    /\ started < jobLimit \/ failedSubs < failLimit
    /\ comp' = [comp EXCEPT ![gen] =
                  [@ EXCEPT !.loading = TRUE, !.posting = TRUE,
                            !.clickLogs = comp[gen].logs, !.logs = <<>>]]
    /\ event' = Event("startParsing", 0, gen)
    /\ calls' = <<>>
    /\ UNCHANGED <<history, nextId, now, gen, poller, started, failedSubs>>

InitialLogs == <<Ev("launch", "info", now)>>

SubmitOk(g, jobLimit) ==
    /\ comp[g].posting
    /\ started < jobLimit
    /\ LET newTaskId == started + 1
           taskData == [taskId |-> newTaskId, status |-> "running",
                        logs |-> InitialLogs, error |-> NoKey, endTime |-> 0]
           h1 == saveToHistory(history, nextId + 1, taskData)
       IN /\ history' = h1
          /\ calls' = <<Call("save", newTaskId, newTaskId, taskData, history, h1)>>
          /\ event' = Event("submitOk", newTaskId, g)
          /\ poller' = [poller EXCEPT ![newTaskId] =
                          [pc |-> "fetch", attempt |-> 0, gen |-> g,
                           logs |-> comp[g].clickLogs, polls |-> 0,
                           status |-> Undef, streak |-> 0,
                           delivered |-> {}]]
          /\ comp' = [comp EXCEPT ![g] =
                        [@ EXCEPT !.posting = FALSE, !.clickLogs = <<>>,
                                  !.logs = IF g = gen THEN InitialLogs ELSE @]]
    /\ started' = started + 1
    /\ nextId' = nextId + 1
    /\ now' = now + 1
    /\ UNCHANGED <<gen, failedSubs>>

FailedTaskDataNoError(errTaskId) ==
    [taskId |-> errTaskId, status |-> "failed",
     logs |-> <<Ev("launchErr", "error", now)>>, error |-> NoKey, endTime |-> now]

FailedTaskData(errTaskId) ==
    [taskId |-> errTaskId, status |-> "failed",
     logs |-> <<Ev("launchErr", "error", now)>>, error |-> "launchErr",
     endTime |-> now]

SubmitFail(g, failLimit) ==
    /\ comp[g].posting
    /\ failedSubs < failLimit
    /\ LET errTaskId == 0 - (nextId + 1)
           taskData == FailedTaskData(errTaskId)
           h1 == saveToHistory(history, nextId + 1, taskData)
       IN /\ history' = h1
          /\ calls' = <<Call("save", 0, errTaskId, taskData, history, h1)>>
          /\ event' = Event("submitFail", errTaskId, g)
    /\ comp' = [comp EXCEPT ![g] =
                  [@ EXCEPT !.posting = FALSE, !.clickLogs = <<>>,
                            !.loading = IF g = gen THEN FALSE ELSE @]]
    /\ failedSubs' = failedSubs + 1
    /\ nextId' = nextId + 1
    /\ now' = now + 1
    /\ UNCHANGED <<gen, poller, started>>

----------------------------------------------------------------------------
(* pollLogs: one status fetch resolves *)

(* the setLogs updater of a successful fetch: dedup against the displayed *)
(* logs, then write the whole displayed list and the polled status        *)
UpdaterLogs(prev, newLogs) == prev \o FilterNew(newLogs, Messages(prev))

UpdaterUpdates(prev, newLogs, taskStatus) ==
    [NoUpdates EXCEPT !.hasLogs = TRUE, !.logs = UpdaterLogs(prev, newLogs),
                      !.status = taskStatus]

UpdaterWrites(prev, newLogs) == Len(FilterNew(newLogs, Messages(prev))) > 0

UpdaterStore(h, id, prev, newLogs, taskStatus) ==
    IF UpdaterWrites(prev, newLogs)
    THEN updateHistoryItem(h, id, UpdaterUpdates(prev, newLogs, taskStatus))
    ELSE h

UpdaterCalls(h, id, prev, newLogs, taskStatus) ==
    IF UpdaterWrites(prev, newLogs)
    THEN <<Call("update", id, id, UpdaterUpdates(prev, newLogs, taskStatus), h,
                UpdaterStore(h, id, prev, newLogs, taskStatus))>>
    ELSE <<>>

(* React runs an updater inside setLogs when the fiber has no pending      *)
(* update ("eager"), else at the render that follows the running handler   *)
(* ("render"); a fiber that is no longer mounted never renders ("dropped") *)
UpdaterModes(g) ==
    IF g = gen THEN {"eager", "render"}
    ELSE IF comp[g].stale THEN {"dropped"} ELSE {"eager", "dropped"}

FailedUpdatesNoStatus(closureLogs) ==
    [NoUpdates EXCEPT !.endTime = now, !.hasLogs = TRUE,
                      !.logs = closureLogs \o <<Ev("failMarker", "error", now)>>]

FailedUpdates(closureLogs) ==
    [NoUpdates EXCEPT !.status = "failed", !.endTime = now, !.hasLogs = TRUE,
                      !.logs = closureLogs \o <<Ev("failMarker", "error", now)>>]

NextPcKeepsPolling(taskStatus) ==
    IF taskStatus = "completed" THEN "result" ELSE "timer"

NextPcPollsAfterFailed(taskStatus) ==
    IF taskStatus = "running" \/ taskStatus = "failed" THEN "timer"
    ELSE IF taskStatus = "completed" THEN "result"
    ELSE "stopped"

NextPc(taskStatus) ==
    IF taskStatus = "running" THEN "timer"
    ELSE IF taskStatus = "completed" THEN "result"
    ELSE "stopped"

FetchOk(id, newLogs, taskStatus, mode) ==
    LET p == poller[id]
        g == p.gen
        prev == comp[g].logs
        runs == mode # "dropped"
        hU(h) == IF runs THEN UpdaterStore(h, id, prev, newLogs, taskStatus) ELSE h
        cU(h) == IF runs THEN UpdaterCalls(h, id, prev, newLogs, taskStatus) ELSE <<>>
        fin == FailedUpdates(p.logs)
        shown == IF runs THEN UpdaterLogs(prev, newLogs) ELSE prev
    IN
    /\ p.pc = "fetch"
    /\ mode \in UpdaterModes(g)
    /\ taskStatus = "running" => p.polls < MaxPolls
    /\ IF taskStatus = "failed"
       THEN /\ IF mode = "eager"
               THEN /\ history' = updateHistoryItem(hU(history), id, fin)
                    /\ calls' = cU(history) \o
                         <<Call("update", id, id, fin, hU(history),
                                updateHistoryItem(hU(history), id, fin))>>
               ELSE /\ history' = hU(updateHistoryItem(history, id, fin))
                    /\ calls' = <<Call("update", id, id, fin, history,
                                       updateHistoryItem(history, id, fin))>> \o
                                cU(updateHistoryItem(history, id, fin))
            /\ now' = now + 1
            /\ comp' = [comp EXCEPT ![g] =
                  IF g = gen
                  THEN [@ EXCEPT !.logs = shown \o <<Ev("failMarker", "error", now)>>,
                                 !.loading = FALSE]
                  ELSE [@ EXCEPT !.stale = TRUE]]
       ELSE /\ history' = hU(history)
            /\ calls' = cU(history)
            /\ now' = now
            /\ comp' = [comp EXCEPT ![g] =
                  IF g = gen THEN [@ EXCEPT !.logs = shown]
                  ELSE [@ EXCEPT !.stale = TRUE]]
    /\ poller' = [poller EXCEPT ![id] =
                    [@ EXCEPT !.pc = NextPc(taskStatus),
                              !.polls = IF taskStatus = "running" THEN @ + 1 ELSE @,
                              !.status = taskStatus, !.streak = 0,
                              !.delivered = @ \cup Messages(newLogs)]]
    /\ event' = Event("fetchOk", id, [logs |-> newLogs, status |-> taskStatus,
                                      mode |-> mode])
    /\ UNCHANGED <<nextId, gen, started, failedSubs>>

(* setTimeout(poll, 1500) or setTimeout(poll, 2000) fires: the next fetch *)
TimerFires(id) ==
    /\ poller[id].pc = "timer"
    /\ poller' = [poller EXCEPT ![id].pc = "fetch"]
    /\ event' = Event("timer", id, 0)
    /\ calls' = <<>>
    /\ UNCHANGED <<history, nextId, now, gen, comp, started, failedSubs>>

(* the synthetic event of the catch branch; its text embeds err.message *)
CommErrorMessage(code) ==
    IF code = "ECONNABORTED" THEN "commError: timeout of 15000ms exceeded"
    ELSE "commError: Network Error"

AbortUpdatesKeepsStatus(closureLogs, code) ==
    [NoUpdates EXCEPT !.endTime = now,
                      !.error = ErrMessage(code), !.hasLogs = TRUE,
                      !.logs = closureLogs \o
                               <<Ev(CommErrorMessage(code), "error", now)>>]

AbortUpdates(closureLogs, code) ==
    [NoUpdates EXCEPT !.status = "failed", !.endTime = now,
                      !.error = ErrMessage(code), !.hasLogs = TRUE,
                      !.logs = closureLogs \o
                               <<Ev(CommErrorMessage(code), "error", now)>>]

ShouldRetryAnyCode(code, attempt) == attempt < maxAttempts

ShouldRetryOffByOne(code, attempt) ==
    code = "ECONNABORTED" /\ attempt <= maxAttempts

ShouldRetry(code, attempt) == code = "ECONNABORTED" /\ attempt < maxAttempts

FetchFailRetryWrites(id, code) ==
    LET p == poller[id]
        upd == AbortUpdates(p.logs, code)
    IN
    /\ p.pc = "fetch"
    /\ history' = updateHistoryItem(history, id, upd)
    /\ calls' = <<Call("update", id, id, upd, history,
                       updateHistoryItem(history, id, upd))>>
    /\ poller' = [poller EXCEPT ![id] =
                    IF ShouldRetry(code, p.attempt)
                    THEN [@ EXCEPT !.attempt = @ + 1, !.pc = "timer",
                                   !.streak = @ + 1]
                    ELSE [@ EXCEPT !.pc = "stopped"]]
    /\ event' = Event("fetchFail", id, code)
    /\ UNCHANGED <<nextId, now, gen, comp, started, failedSubs>>

FetchFail(id, code) ==
    LET p == poller[id]
        g == p.gen
        upd == AbortUpdates(p.logs, code)
    IN
    /\ p.pc = "fetch"
    /\ IF ShouldRetry(code, p.attempt)
       THEN /\ poller' = [poller EXCEPT ![id] =
                            [@ EXCEPT !.attempt = @ + 1, !.pc = "timer",
                                      !.streak = @ + 1]]
            /\ calls' = <<>>
            /\ UNCHANGED <<history, now, comp>>
       ELSE /\ history' = updateHistoryItem(history, id, upd)
            /\ calls' = <<Call("update", id, id, upd, history,
                               updateHistoryItem(history, id, upd))>>
            /\ now' = now + 1
            /\ poller' = [poller EXCEPT ![id] =
                            [@ EXCEPT !.pc = "stopped",
                                      !.streak = IF code = "ECONNABORTED"
                                                 THEN @ + 1 ELSE 0]]
            /\ comp' = [comp EXCEPT ![g] =
                          [@ EXCEPT !.loading = IF g = gen THEN FALSE ELSE @]]
    /\ event' = Event("fetchFail", id, code)
    /\ UNCHANGED <<nextId, gen, started, failedSubs>>

CompletedUpdatesNoResult(closureLogs) ==
    [NoUpdates EXCEPT !.status = "completed", !.endTime = now, !.hasLogs = TRUE,
                      !.logs = closureLogs \o <<Ev("okMarker", "success", now)>>]

CompletedUpdates(closureLogs) ==
    [NoUpdates EXCEPT !.status = "completed", !.endTime = now, !.hasLogs = TRUE,
                      !.logs = closureLogs \o <<Ev("okMarker", "success", now)>>,
                      !.result = "finalResult"]

ResultOk(id, backendLogs) ==
    LET p == poller[id]
        g == p.gen
        h1 == saveCompleteLogsToHistory(history, id, backendLogs)
        upd == CompletedUpdates(p.logs)
        h2 == updateHistoryItem(h1, id, upd)
    IN
    /\ p.pc = "result"
    /\ history' = h2
    /\ calls' = <<Call("complete", id, id, backendLogs, history, h1),
                  Call("update", id, id, upd, h1, h2)>>
    /\ now' = now + 1
    /\ poller' = [poller EXCEPT ![id] =
                    [@ EXCEPT !.pc = "stopped",
                              !.delivered = @ \cup Messages(backendLogs)]]
    /\ comp' = [comp EXCEPT ![g] =
          IF g = gen
          THEN [@ EXCEPT !.logs = @ \o <<Ev("okMarker", "success", now)>>,
                         !.loading = FALSE]
          ELSE [@ EXCEPT !.stale = TRUE]]
    /\ event' = Event("resultOk", id, backendLogs)
    /\ UNCHANGED <<nextId, gen, started, failedSubs>>

NoResultUpdatesFailed(closureLogs) ==
    [NoUpdates EXCEPT !.status = "failed", !.endTime = now, !.hasLogs = TRUE,
                      !.logs = closureLogs \o <<Ev("noResult", "error", now)>>]

NoResultUpdates(closureLogs) ==
    [NoUpdates EXCEPT !.status = "completed", !.endTime = now, !.hasLogs = TRUE,
                      !.logs = closureLogs \o <<Ev("noResult", "info", now)>>]

ResultFail(id) ==
    LET p == poller[id]
        g == p.gen
        upd == NoResultUpdates(p.logs)
    IN
    /\ p.pc = "result"
    /\ history' = updateHistoryItem(history, id, upd)
    /\ calls' = <<Call("update", id, id, upd, history,
                       updateHistoryItem(history, id, upd))>>
    /\ now' = now + 1
    /\ poller' = [poller EXCEPT ![id].pc = "stopped"]
    /\ comp' = [comp EXCEPT ![g] =
                  [@ EXCEPT !.loading = IF g = gen THEN FALSE ELSE @]]
    /\ event' = Event("resultFail", id, 0)
    /\ UNCHANGED <<nextId, gen, started, failedSubs>>

(* leaving /parser and coming back: a new Parser instance; timers and   *)
(* requests of the old instance are not cancelled. The History view is  *)
(* mounted with the page and loads its list once, in its mount effect   *)
Remount ==
    /\ gen < MaxMounts
    /\ gen' = gen + 1
    /\ comp' = [comp EXCEPT ![gen + 1].view = history]
    /\ event' = Event("remount", 0, 0)
    /\ calls' = <<>>
    /\ UNCHANGED <<history, nextId, now, poller, started, failedSubs>>

----------------------------------------------------------------------------
(* Spec: up to MaxJobs jobs, started one after another or, after a remount, *)
(* side by side; every status fetch is answered or fails on the network     *)

Next ==
    \/ StartParsing(MaxJobs, 0)
    \/ \E g \in 1..MaxMounts : SubmitOk(g, MaxJobs)
    \/ \E id \in 1..MaxJobs, newLogs \in PollLogs, taskStatus \in PollStatus,
          mode \in {"eager", "render", "dropped"} :
          FetchOk(id, newLogs, taskStatus, mode)
    \/ \E id \in 1..MaxJobs : TimerFires(id)
    \/ \E id \in 1..MaxJobs : FetchFail(id, "ERR_NETWORK")
    \/ \E id \in 1..MaxJobs, backendLogs \in Dumps : ResultOk(id, backendLogs)
    \/ \E id \in 1..MaxJobs : ResultFail(id)
    \/ Remount

Spec == Init /\ [][Next]_vars

(* SpecRetry: one job whose status fetches may also time out, any number *)
(* of times                                                               *)
NextRetry ==
    \/ StartParsing(SoloJobs, 0)
    \/ \E g \in 1..MaxMounts : SubmitOk(g, SoloJobs)
    \/ \E id \in 1..SoloJobs, newLogs \in PollLogsWithError,
          taskStatus \in PollStatus, mode \in {"eager", "render", "dropped"} :
          FetchOk(id, newLogs, taskStatus, mode)
    \/ \E id \in 1..SoloJobs : TimerFires(id)
    \/ \E id \in 1..SoloJobs, code \in PollErrors : FetchFail(id, code)
    \/ \E id \in 1..SoloJobs, backendLogs \in Dumps : ResultOk(id, backendLogs)
    \/ \E id \in 1..SoloJobs : ResultFail(id)
    \/ Remount

SpecRetry == Init /\ [][NextRetry]_vars

(* SpecCap: one job, submitted first, and then submissions that fail, *)
(* enough of them to fill the store                                   *)
NextCap ==
    \/ StartParsing(IF failedSubs = 0 THEN SoloJobs ELSE 0, MaxCapSubs)
    \/ \E g \in 1..MaxMounts : SubmitOk(g, IF failedSubs = 0 THEN SoloJobs ELSE 0)
    \/ \E g \in 1..MaxMounts : SubmitFail(g, MaxCapSubs)
    \/ \E id \in 1..SoloJobs, taskStatus \in {"running", "failed"},
          mode \in {"eager", "render", "dropped"} :
          FetchOk(id, <<>>, taskStatus, mode)
    \/ \E id \in 1..SoloJobs : TimerFires(id)
    \/ \E id \in 1..SoloJobs : FetchFail(id, "ERR_NETWORK")
    \/ Remount

SpecCap == Init /\ [][NextCap]_vars

----------------------------------------------------------------------------
(* SpecStore: the exported store functions called with any arguments *)

EventPool == {eA, eB, eA2, eN}

ApiLogs == UNION {[1..n -> EventPool] : n \in 0..MaxLogLen}

ApiUpdatesSet ==
    {[NoUpdates EXCEPT !.hasLogs = TRUE, !.logs = l, !.status = s] :
        l \in ApiLogs, s \in {NoKey, "completed"}}
    \cup {[NoUpdates EXCEPT !.status = "completed", !.endTime = now]}

SaveLogs == {l \in ApiLogs : Len(l) <= 1}

ApiSave(taskId, logs) ==
    LET taskData == [taskId |-> taskId, status |-> NoKey, logs |-> logs,
                     error |-> NoKey, endTime |-> 0]
        h1 == saveToHistory(history, nextId + 1, taskData)
    IN
    /\ now <= MaxApiCalls
    /\ history' = h1
    /\ nextId' = nextId + 1
    /\ now' = now + 1
    /\ event' = Event("apiSave", taskId, logs)
    /\ calls' = <<Call("save", 0, taskId, taskData, history, h1)>>
    /\ UNCHANGED <<gen, comp, poller, started, failedSubs>>

ApiUpdate(taskId, updates) ==
    LET h1 == updateHistoryItem(history, taskId, updates) IN
    /\ now <= MaxApiCalls
    /\ history' = h1
    /\ now' = now + 1
    /\ event' = Event("apiUpdate", taskId, updates)
    /\ calls' = <<Call("update", 0, taskId, updates, history, h1)>>
    /\ UNCHANGED <<nextId, gen, comp, poller, started, failedSubs>>

ApiComplete(taskId, backendLogs) ==
    LET h1 == saveCompleteLogsToHistory(history, taskId, backendLogs) IN
    /\ now <= MaxApiCalls
    /\ history' = h1
    /\ now' = now + 1
    /\ event' = Event("apiComplete", taskId, backendLogs)
    /\ calls' = <<Call("complete", 0, taskId, backendLogs, history, h1)>>
    /\ UNCHANGED <<nextId, gen, comp, poller, started, failedSubs>>

NextStore ==
    \/ \E taskId \in 1..MaxApiTasks, logs \in SaveLogs : ApiSave(taskId, logs)
    \/ \E taskId \in 1..MaxApiTasks, updates \in ApiUpdatesSet :
          ApiUpdate(taskId, updates)
    \/ \E taskId \in 1..MaxApiTasks, backendLogs \in ApiLogs :
          ApiComplete(taskId, backendLogs)

SpecStore == Init /\ [][NextStore]_vars

----------------------------------------------------------------------------
(* SpecFault: the exported store functions when localStorage may throw: *)
(* getItem ("read"), JSON.parse of a damaged snapshot ("parse"), or     *)
(* setItem ("write", e.g. the quota is exceeded)                        *)

Failures == {"read", "parse", "write"}

Ret(kind, val) == [kind |-> kind, val |-> val]

Throws == Ret("throws", 0)

OnErrorRethrow(sentinel) == Throws

(* catch (error) { console.error(...); return <sentinel> } *)
OnError(sentinel) == sentinel

(* getItem and JSON.parse run first in every function; setItem runs only *)
(* when the function gets as far as writing                              *)
Thrown(fail, writes) == fail \in {"read", "parse"} \/ (fail = "write" /\ writes)

saveToHistoryTry(h, id, taskData, fail) ==
    IF Thrown(fail, TRUE) THEN [ret |-> OnError(Ret("null", 0)), h |-> h]
    ELSE [ret |-> Ret("id", id), h |-> saveToHistory(h, id, taskData)]

updateHistoryItemTry(h, taskId, updates, fail) ==
    LET found == FindIndex(h, taskId, 1) # 0 IN
    IF Thrown(fail, found) THEN [ret |-> OnError(Ret("bool", FALSE)), h |-> h]
    ELSE [ret |-> Ret("bool", found), h |-> updateHistoryItem(h, taskId, updates)]

saveCompleteLogsToHistoryTry(h, taskId, backendLogs, fail) ==
    LET found == FindIndex(h, taskId, 1) # 0 IN
    IF Thrown(fail, found) THEN [ret |-> OnError(Ret("bool", FALSE)), h |-> h]
    ELSE [ret |-> Ret("bool", found),
          h |-> saveCompleteLogsToHistory(h, taskId, backendLogs)]

deleteFromHistory(h, id) == SelectSeq(h, LAMBDA item : item.id # id)

deleteFromHistoryTry(h, id, fail) ==
    IF Thrown(fail, TRUE) THEN [ret |-> OnError(Ret("bool", FALSE)), h |-> h]
    ELSE [ret |-> Ret("bool", TRUE), h |-> deleteFromHistory(h, id)]

getHistoryTry(h, fail) ==
    IF Thrown(fail, FALSE) THEN [ret |-> OnError(Ret("list", <<>>)), h |-> h]
    ELSE [ret |-> Ret("list", h), h |-> h]

(* JSON.stringify of a record: a key whose value is undefined is left out *)
JsonOf(r) ==
    <<<<"id", r.id>>, <<"taskId", r.taskId>>>>
    \o (IF r.status = Undef THEN <<>> ELSE <<<<"status", r.status>>>>)
    \o <<<<"logs", r.logs>>, <<"allLogs", r.allLogs>>, <<"result", r.result>>,
         <<"error", r.error>>>>
    \o (IF r.endTime = 0 THEN <<>> ELSE <<<<"endTime", r.endTime>>>>)

Stringify(h) == [i \in 1..Len(h) |-> JsonOf(h[i])]

exportHistoryDropsLast(h, fail) ==
    LET list == getHistoryTry(h, fail).ret.val IN
    Stringify(SubSeq(list, 1, Len(list) - 1))

exportHistory(h, fail) == Stringify(getHistoryTry(h, fail).ret.val)

(* a store call together with the storage failure it met and its outcome *)
CallF(op, taskId, arg, fail, writes, res) ==
    [op |-> op, taskId |-> taskId, arg |-> arg, fail |-> fail,
     thrown |-> Thrown(fail, writes), ret |-> res.ret]

FaultySave(taskId, logs, fail) ==
    LET taskData == [taskId |-> taskId, status |-> NoKey, logs |-> logs,
                     error |-> NoKey, endTime |-> 0]
        res == saveToHistoryTry(history, nextId + 1, taskData, fail)
    IN
    /\ now <= MaxApiCalls
    /\ history' = res.h
    /\ nextId' = IF fail \in {"read", "parse"} THEN nextId ELSE nextId + 1
    /\ now' = now + 1
    /\ event' = Event("faultySave", taskId, fail)
    /\ calls' = <<CallF("save", taskId, logs, fail, TRUE, res)>>
    /\ UNCHANGED <<gen, comp, poller, started, failedSubs>>

FaultyUpdate(taskId, updates, fail) ==
    LET res == updateHistoryItemTry(history, taskId, updates, fail) IN
    /\ now <= MaxApiCalls
    /\ history' = res.h
    /\ now' = now + 1
    /\ event' = Event("faultyUpdate", taskId, fail)
    /\ calls' = <<CallF("update", taskId, updates, fail,
                        FindIndex(history, taskId, 1) # 0, res)>>
    /\ UNCHANGED <<nextId, gen, comp, poller, started, failedSubs>>

FaultyComplete(taskId, backendLogs, fail) ==
    LET res == saveCompleteLogsToHistoryTry(history, taskId, backendLogs, fail) IN
    /\ now <= MaxApiCalls
    /\ history' = res.h
    /\ now' = now + 1
    /\ event' = Event("faultyComplete", taskId, fail)
    /\ calls' = <<CallF("complete", taskId, backendLogs, fail,
                        FindIndex(history, taskId, 1) # 0, res)>>
    /\ UNCHANGED <<nextId, gen, comp, poller, started, failedSubs>>

FaultyDelete(id, fail) ==
    LET res == deleteFromHistoryTry(history, id, fail) IN
    /\ now <= MaxApiCalls
    /\ history' = res.h
    /\ now' = now + 1
    /\ event' = Event("faultyDelete", id, fail)
    /\ calls' = <<CallF("delete", id, id, fail, TRUE, res)>>
    /\ UNCHANGED <<nextId, gen, comp, poller, started, failedSubs>>

FaultyGet(fail) ==
    LET res == getHistoryTry(history, fail) IN
    /\ now <= MaxApiCalls
    /\ history' = res.h
    /\ now' = now + 1
    /\ event' = Event("faultyGet", 0, fail)
    /\ calls' = <<CallF("get", 0, 0, fail, FALSE, res)>>
    /\ UNCHANGED <<nextId, gen, comp, poller, started, failedSubs>>

FaultyExport(fail) ==
    /\ now <= MaxApiCalls
    /\ history' = history
    /\ now' = now + 1
    /\ event' = Event("faultyExport", 0, fail)
    /\ calls' = <<CallF("export", 0, 0, fail, FALSE,
                        [ret |-> Ret("text", exportHistory(history, fail))])>>
    /\ UNCHANGED <<nextId, gen, comp, poller, started, failedSubs>>

NextFault ==
    \/ \E taskId \in 1..MaxApiTasks, logs \in SaveLogs,
          fail \in Failures \cup {"none"} : FaultySave(taskId, logs, fail)
    \/ \E taskId \in 1..MaxApiTasks, updates \in ApiUpdatesSet,
          fail \in Failures \cup {"none"} : FaultyUpdate(taskId, updates, fail)
    \/ \E taskId \in 1..MaxApiTasks, backendLogs \in SaveLogs,
          fail \in Failures \cup {"none"} :
          FaultyComplete(taskId, backendLogs, fail)
    \/ \E id \in 1..MaxApiCalls, fail \in Failures \cup {"none"} :
          FaultyDelete(id, fail)
    \/ \E fail \in Failures \cup {"none"} : FaultyGet(fail)
    \/ \E fail \in Failures \cup {"none"} : FaultyExport(fail)

SpecFault == Init /\ [][NextFault]_vars

----------------------------------------------------------------------------
(* SpecView: jobs run while the user works with the History view, which *)
(* keeps its own copy of the list (components/History.jsx)              *)

(* the view's refresh button: loadHistory *)
ViewLoad ==
    /\ comp[gen].view # history
    /\ comp' = [comp EXCEPT ![gen].view = history]
    /\ event' = Event("loadHistory", 0, 0)
    /\ calls' = <<>>
    /\ UNCHANGED <<history, nextId, now, gen, poller, started, failedSubs>>

(* the delete button of a row the view shows: deleteItem *)
ViewDelete(id) ==
    LET newHistory == SelectSeq(comp[gen].view, LAMBDA item : item.id # id) IN
    /\ \E n \in 1..Len(comp[gen].view) : comp[gen].view[n].id = id
    /\ comp' = [comp EXCEPT ![gen].view = newHistory]
    /\ history' = newHistory
    /\ event' = Event("deleteItem", id, 0)
    /\ calls' = <<>>
    /\ UNCHANGED <<nextId, now, gen, poller, started, failedSubs>>

(* deleteFromHistory of utils/history.js, called for a stored record *)
ApiDelete(id) ==
    /\ \E n \in 1..Len(history) : history[n].id = id
    /\ history' = deleteFromHistory(history, id)
    /\ event' = Event("deleteFromHistory", id, 0)
    /\ calls' = <<>>
    /\ UNCHANGED <<nextId, now, gen, comp, poller, started, failedSubs>>

NextView ==
    \/ StartParsing(MaxJobs, 0)
    \/ \E g \in 1..MaxMounts : SubmitOk(g, MaxJobs)
    \/ \E id \in 1..MaxJobs, newLogs \in {<<>>, <<eA>>},
          taskStatus \in {"running", "failed"},
          mode \in {"eager", "render", "dropped"} :
          FetchOk(id, newLogs, taskStatus, mode)
    \/ \E id \in 1..MaxJobs : TimerFires(id)
    \/ Remount
    \/ ViewLoad
    \/ \E id \in 1..MaxJobs : ViewDelete(id)
    \/ \E id \in 1..MaxJobs : ApiDelete(id)

SpecView == Init /\ [][NextView]_vars

----------------------------------------------------------------------------
(* SpecPair: two store calls, one after the other, on a store that holds *)
(* the records of two jobs                                               *)

MaxPairCalls == 2   \* store calls in SpecPair

InitPair ==
    /\ \E logs1, logs2 \in SaveLogs :
          history = saveToHistory(
                      saveToHistory(<<>>, 1,
                          [taskId |-> 1, status |-> "running", logs |-> logs1,
                           error |-> NoKey, endTime |-> 0]),
                      2, [taskId |-> 2, status |-> "running", logs |-> logs2,
                          error |-> NoKey, endTime |-> 0])
    /\ nextId = 2
    /\ now = 1
    /\ gen = 1
    /\ comp = [g \in 1..MaxMounts |-> FreshComp]
    /\ poller = [j \in 1..MaxJobs |-> IdlePoller]
    /\ started = 0
    /\ failedSubs = 0
    /\ event = Event("init", 0, 0)
    /\ calls = <<>>

PairUpdate(taskId, updates) ==
    LET h1 == updateHistoryItem(history, taskId, updates) IN
    /\ now <= MaxPairCalls
    /\ history' = h1
    /\ now' = now + 1
    /\ event' = Event("update", taskId, updates)
    /\ calls' = <<Call("update", 0, taskId, updates, history, h1)>>
    /\ UNCHANGED <<nextId, gen, comp, poller, started, failedSubs>>

PairComplete(taskId, backendLogs) ==
    LET h1 == saveCompleteLogsToHistory(history, taskId, backendLogs) IN
    /\ now <= MaxPairCalls
    /\ history' = h1
    /\ now' = now + 1
    /\ event' = Event("complete", taskId, backendLogs)
    /\ calls' = <<Call("complete", 0, taskId, backendLogs, history, h1)>>
    /\ UNCHANGED <<nextId, gen, comp, poller, started, failedSubs>>

NextPair ==
    \/ \E taskId \in 1..2, updates \in ApiUpdatesSet : PairUpdate(taskId, updates)
    \/ \E taskId \in 1..2, backendLogs \in ApiLogs :
          PairComplete(taskId, backendLogs)

SpecPair == InitPair /\ [][NextPair]_vars

----------------------------------------------------------------------------
(* SpecLive: jobs polled to their end while the user works with the      *)
(* History view. Every request in flight is answered or fails, and every *)
(* timer that was set fires: axios settles each promise, and the browser *)
(* runs each setTimeout callback.                                        *)

NextLive ==
    \/ StartParsing(MaxJobs, 0)
    \/ \E g \in 1..MaxMounts : SubmitOk(g, MaxJobs)
    \/ \E id \in 1..MaxJobs, newLogs \in {<<>>, <<eA>>},
          taskStatus \in {"running", "completed", "failed"},
          mode \in {"eager", "render", "dropped"} :
          FetchOk(id, newLogs, taskStatus, mode)
    \/ \E id \in 1..MaxJobs : TimerFires(id)
    \/ \E id \in 1..MaxJobs : FetchFail(id, "ERR_NETWORK")
    \/ \E id \in 1..MaxJobs : ResultOk(id, <<eA, eB>>)
    \/ \E id \in 1..MaxJobs : ResultFail(id)
    \/ Remount
    \/ ViewLoad
    \/ \E id \in 1..MaxJobs : ViewDelete(id)

StatusFetchSettles(id) ==
    \/ \E newLogs \in {<<>>, <<eA>>},
          taskStatus \in {"running", "completed", "failed"},
          mode \in {"eager", "render", "dropped"} :
          FetchOk(id, newLogs, taskStatus, mode)
    \/ FetchFail(id, "ERR_NETWORK")

ResultFetchSettles(id) == ResultFail(id) \/ ResultOk(id, <<eA, eB>>)

Fairness ==
    \A id \in 1..MaxJobs :
        /\ WF_poller(TimerFires(id))
        /\ WF_poller(StatusFetchSettles(id))
        /\ WF_poller(ResultFetchSettles(id))

SpecLive == Init /\ [][NextLive]_vars /\ Fairness

----------------------------------------------------------------------------
(* Properties *)

Range(f) == {f[i] : i \in DOMAIN f}

Found(c) == c.before.id # 0

MergesLogs(c) == c.op = "complete" \/ (c.op = "update" /\ c.arg.hasLogs)

(* the first event of logs that carries message m *)
FirstWith(logs, m) ==
    logs[CHOOSE i \in 1..Len(logs) :
            /\ logs[i].message = m
            /\ \A k \in 1..(i - 1) : logs[k].message # m]

PositionIn(logs, e) == CHOOSE i \in 1..Len(logs) : logs[i] = e

Active(id) == poller[id].pc \in {"fetch", "timer", "result"}

(* C1: no store call made by a Poller on a record whose status is completed *)
(* or failed leaves that record with status running.                        *)
C1_TerminalNeverBackToRunning ==
    \A i \in 1..Len(calls) :
        (calls[i].op \in {"update", "complete"} /\ Found(calls[i])
            /\ IsTerminal(calls[i].before.status))
        => calls[i].after.status # "running"

(* C1 witness: an updateHistoryItem call that writes a status reaches a *)
(* record that is already terminal.                                      *)
C1_Witness ==
    \E i \in 1..Len(calls) :
        /\ calls[i].op = "update" /\ Found(calls[i])
        /\ IsTerminal(calls[i].before.status)
        /\ calls[i].arg.status # NoKey
        /\ calls[i].arg.endTime = 0

(* C2: no record's logs hold two entries with equal message. *)
C2_NoDuplicateMessages ==
    \A i \in 1..Len(history) : NoDupMessages(history[i].logs)

(* C3: after saveCompleteLogsToHistory, for every message that is both in *)
(* the record and in the dump, the event kept is the record's own.        *)
C3_ExistingWinsOverDump ==
    \A i \in 1..Len(calls) :
        (calls[i].op = "complete" /\ Found(calls[i]))
        => \A m \in Messages(calls[i].before.logs) \cap Messages(calls[i].arg) :
              \A n \in 1..Len(calls[i].after.logs) :
                  calls[i].after.logs[n].message = m
                  => calls[i].after.logs[n] = FirstWith(calls[i].before.logs, m)

(* C4: updateHistoryItem(taskId, {logs: L}) on an existing record keeps the *)
(* record's events as they were and adds exactly the events of L whose      *)
(* message the record did not hold.                                         *)
C4_UpdateKeepsExistingAddsNew ==
    \A i \in 1..Len(calls) :
        (calls[i].op = "update" /\ Found(calls[i]) /\ calls[i].arg.hasLogs)
        => LET b == calls[i].before.logs
               a == calls[i].after.logs
               L == calls[i].arg.logs
           IN /\ Len(a) >= Len(b)
              /\ SubSeq(a, 1, Len(b)) = b
              /\ \A n \in (Len(b) + 1)..Len(a) :
                    a[n].message \notin Messages(b) /\ a[n] \in Range(L)
              /\ \A k \in 1..Len(L) :
                    L[k].message \notin Messages(b) => L[k] \in Range(a)

(* C5: after every store call that merges log events into a record, the *)
(* record's logs are sorted ascending by timestamp, missing ones first. *)
C5_LogsSortedAfterMerge ==
    \A i \in 1..Len(calls) :
        (MergesLogs(calls[i]) /\ Found(calls[i]))
        => IsSortedByTime(calls[i].after.logs)

(* C6: the sort of saveCompleteLogsToHistory puts events without timestamp *)
(* before events with one, orders the others ascending, keeps ties in the  *)
(* order of the deduplicated concatenation, and [x at T1] merged with      *)
(* [y without timestamp] gives [y, x].                                     *)
C6_FinalSortStable ==
    \A i \in 1..Len(calls) :
        (calls[i].op = "complete" /\ Found(calls[i]))
        => LET u == UniqueLogs(ConcatForDump(calls[i].arg, calls[i].before.logs),
                               {}, <<>>)
               a == calls[i].after.logs
           IN /\ Len(a) = Len(u) /\ Range(a) = Range(u)
              /\ \A n, k \in 1..Len(a) : n < k =>
                    /\ ~(a[n].timestamp # NoTs /\ a[k].timestamp = NoTs)
                    /\ (a[n].timestamp # NoTs /\ a[k].timestamp # NoTs)
                          => GetTime(a[n].timestamp) <= GetTime(a[k].timestamp)
                    /\ TimeKey(a[n]) = TimeKey(a[k])
                          => PositionIn(u, a[n]) < PositionIn(u, a[k])
              /\ (calls[i].before.logs = <<eA>> /\ calls[i].arg = <<eN>>)
                    => a = <<eN, eA>>

(* C6 witness: a record holding a timestamped event and an event without  *)
(* timestamp receives a dump with two events of equal timestamp, and the  *)
(* sort moves the event without timestamp to the front.                   *)
C6_Witness ==
    \E i \in 1..Len(calls) :
        /\ calls[i].op = "complete" /\ Found(calls[i])
        /\ calls[i].before.logs = <<eA, eN>> /\ calls[i].arg = <<eB, eA2>>
        /\ calls[i].after.logs = <<eN, eB, eA2>>

(* C7: merging the same event sequence a second time changes nothing: the  *)
(* record's logs after one updateHistoryItem / saveCompleteLogsToHistory    *)
(* call equal its logs after the same call is made again.                   *)
C7_MergeIdempotent ==
    \A i \in 1..Len(calls) :
        Found(calls[i]) =>
            /\ (calls[i].op = "update" /\ calls[i].arg.hasLogs)
                  => MergedLogs(calls[i].after.logs, calls[i].arg)
                       = calls[i].after.logs
            /\ calls[i].op = "complete"
                  => CompleteLogs(calls[i].after.logs, calls[i].arg)
                       = calls[i].after.logs

(* C7 witness: a merge that added events to a record that had some. *)
C7_Witness ==
    \E i \in 1..Len(calls) :
        /\ MergesLogs(calls[i]) /\ Found(calls[i])
        /\ Len(calls[i].before.logs) > 0
        /\ Len(calls[i].after.logs) > Len(calls[i].before.logs)

(* C8: the store holds at most MAX_HISTORY_ITEMS records, newest first; *)
(* with no deletion these are exactly the last inserted ones, so after  *)
(* 101 inserts 100 remain and the first inserted one is gone.           *)
C8_CapacityAndOrder ==
    /\ Len(history) <= MAX_HISTORY_ITEMS
    /\ Len(history) = IF nextId < MAX_HISTORY_ITEMS THEN nextId
                      ELSE MAX_HISTORY_ITEMS
    /\ \A i \in 1..Len(history) : history[i].id = nextId - i + 1

(* C8 witness: 101 records were inserted, 100 are left, the oldest kept *)
(* is the second one inserted.                                          *)
C8_Witness ==
    /\ nextId = MAX_HISTORY_ITEMS + 1
    /\ Len(history) = MAX_HISTORY_ITEMS
    /\ history[MAX_HISTORY_ITEMS].id = 2
    /\ history[1].id = MAX_HISTORY_ITEMS + 1

(* C9: saveToHistory never evicts a record whose status is running and *)
(* whose Poller is still active.                                       *)
C9_ActiveRecordNotEvicted ==
    \A i \in 1..Len(calls) :
        (calls[i].op = "save" /\ calls[i].evicted.id # 0
            /\ calls[i].evicted.taskId > 0)
        => ~(calls[i].evicted.status = "running"
             /\ Active(calls[i].evicted.taskId))

(* C10: while every status fetch of a job has timed out, each of the first *)
(* 10 timeouts is retried and leaves the store alone; the 11th writes the  *)
(* Aborted update: status failed, endTime, error, a last event of severity *)
(* error, no result.                                                       *)
C10_AbortOnEleventhTimeout ==
    [][\A id \in 1..SoloJobs :
          (/\ poller[id].pc = "fetch" /\ poller[id].polls = 0
           /\ event'.kind = "fetchFail" /\ event'.id = id
           /\ event'.param = "ECONNABORTED")
          => IF poller[id].attempt < 10
             THEN /\ poller'[id].pc = "timer"
                  /\ poller'[id].attempt = poller[id].attempt + 1
                  /\ history' = history
             ELSE LET r == RecordOf(history', id)
                      b == RecordOf(history, id)
                  IN /\ poller[id].attempt = 10
                     /\ poller'[id].pc = "stopped"
                     /\ r.id # 0
                     /\ r.status = "failed"
                     /\ r.endTime # 0
                     /\ r.error = ErrMessage("ECONNABORTED")
                     /\ r.result = Null
                     /\ Len(r.logs) > Len(b.logs)
                     /\ SubSeq(r.logs, 1, Len(b.logs)) = b.logs
                     /\ r.logs[Len(r.logs)].type = "error"
                     /\ r.logs[Len(r.logs)].message
                          = CommErrorMessage("ECONNABORTED")
      ]_vars

(* C10 witness: a job stopped by its 11th timeout without ever having *)
(* been answered.                                                     *)
C10_Witness ==
    /\ event.kind = "fetchFail"
    /\ event.param = "ECONNABORTED"
    /\ poller[event.id].pc = "stopped"
    /\ poller[event.id].polls = 0
    /\ poller[event.id].attempt = maxAttempts
    /\ RecordOf(history, event.id).status = "failed"

(* C11: a Poller is stopped by a timeout only when that timeout and the 10 *)
(* fetches before it all timed out in a row; timeouts separated by an      *)
(* answered fetch do not add up.                                           *)
C11_OnlyConsecutiveTimeoutsAbort ==
    \A id \in 1..SoloJobs :
        (/\ event.kind = "fetchFail" /\ event.id = id
         /\ event.param = "ECONNABORTED"
         /\ poller[id].pc = "stopped")
        => poller[id].streak >= maxAttempts + 1

(* C12: a status fetch that fails with anything but a timeout stops the *)
(* Poller at once, whatever its timeout counter: no further fetch is    *)
(* scheduled, now or later, and the record is written with status       *)
(* failed and the error's message.                                      *)
C12_NonTimeoutFailureAborts ==
    [][\A id \in 1..SoloJobs :
          /\ (/\ poller[id].pc = "fetch"
              /\ event'.kind = "fetchFail" /\ event'.id = id
              /\ event'.param = "ERR_NETWORK")
             => /\ poller'[id].pc = "stopped"
                /\ RecordOf(history', id).status = "failed"
                /\ RecordOf(history', id).endTime # 0
                /\ RecordOf(history', id).error = ErrMessage("ERR_NETWORK")
          /\ poller[id].pc = "stopped" => poller'[id].pc = "stopped"
      ]_vars

(* C12 witness: a network error stopped a Poller whose timeout counter was *)
(* neither zero nor at its bound.                                          *)
C12_Witness ==
    /\ event.kind = "fetchFail"
    /\ event.param = "ERR_NETWORK"
    /\ poller[event.id].pc = "stopped"
    /\ poller[event.id].attempt > 0
    /\ poller[event.id].attempt < maxAttempts
    /\ RecordOf(history, event.id).status = "failed"

(* the end-to-end scenario with start = eA and done = eB: the record holds *)
(* the launch event and start from one running answer, a later answer     *)
(* said completed and brought nothing new, and the result's dump is       *)
(* [start, done]                                                          *)
EndToEnd(id) ==
    /\ event.kind = "resultOk" /\ event.id = id
    /\ event.param = <<eA, eB>>
    /\ poller[id].polls = 1
    /\ Len(calls) = 2
    /\ calls[1].before.status = "running"
    /\ Len(calls[1].before.logs) = 2
    /\ calls[1].before.logs[1].message = "launch"
    /\ calls[1].before.logs[2] = eA

CountOf(logs, m) == Cardinality({i \in 1..Len(logs) : logs[i].message = m})

(* C13 as stated: the final record is completed, has endTime and result, *)
(* and its logs are exactly [start, done].                               *)
C13_FinalLogsExactlyStartDone ==
    \A id \in 1..MaxJobs :
        EndToEnd(id)
        => LET r == RecordOf(history, id)
           IN /\ r.status = "completed"
              /\ r.endTime # 0
              /\ r.result = "finalResult"
              /\ r.logs = <<eA, eB>>

(* C13 amended: the final record is completed, has endTime and result, and *)
(* its logs hold start once and done once together with the two events the *)
(* page adds itself, the launch event of the record's creation and the     *)
(* success event of the finalization, which comes last; these are the only *)
(* four entries when the page showed no logs as the job was started.       *)
C13_EndToEnd ==
    \A id \in 1..MaxJobs :
        EndToEnd(id)
        => LET r == RecordOf(history, id)
           IN /\ r.status = "completed"
              /\ r.endTime # 0
              /\ r.result = "finalResult"
              /\ CountOf(r.logs, "a") = 1 /\ eA \in Range(r.logs)
              /\ CountOf(r.logs, "b") = 1 /\ eB \in Range(r.logs)
              /\ CountOf(r.logs, "launch") = 1
              /\ r.logs[Len(r.logs)].message = "okMarker"
              /\ r.logs[Len(r.logs)].type = "success"
              /\ poller[id].logs = <<>>
                    => /\ Len(r.logs) = 4
                       /\ Messages(r.logs) = {"launch", "a", "b", "okMarker"}

(* C13 witness: the scenario ran for the first job of a fresh page and *)
(* left the four events in this order.                                 *)
C13_Witness ==
    /\ EndToEnd(1)
    /\ poller[1].logs = <<>>
    /\ Len(RecordOf(history, 1).logs) = 4
    /\ RecordOf(history, 1).logs[1].message = "launch"
    /\ RecordOf(history, 1).logs[2] = eA
    /\ RecordOf(history, 1).logs[3] = eB
    /\ RecordOf(history, 1).logs[4].message = "okMarker"

(* C14: when the backend said completed and the result fetch fails, the  *)
(* record is written with status completed and endTime, an event of type *)
(* info noting the missing result is appended, no result is attached,    *)
(* and the record of a job that went this way is never marked failed.    *)
C14_ResultFailureStillCompleted ==
    \A id \in 1..MaxJobs :
        LET r == RecordOf(history, id) IN
        /\ (event.kind = "resultFail" /\ event.id = id)
           => /\ Len(calls) = 1
              /\ r.status = "completed"
              /\ r.endTime # 0
              /\ r.result = Null
              /\ r.error = Null
              /\ Len(r.logs) > Len(calls[1].before.logs)
              /\ r.logs[Len(r.logs)].message = "noResult"
              /\ r.logs[Len(r.logs)].type = "info"
        /\ (poller[id].pc = "stopped" /\ poller[id].status = "completed")
           => r.status = "completed"

(* C14 witness: a result fetch failed for a job that had polled events, *)
(* and its record is completed without result.                          *)
C14_Witness ==
    /\ event.kind = "resultFail"
    /\ poller[event.id].status = "completed"
    /\ RecordOf(history, event.id).status = "completed"
    /\ RecordOf(history, event.id).result = Null
    /\ Len(RecordOf(history, event.id).logs) >= 3

(* C15: once a job's Poller has stopped, every message a successful status *)
(* fetch of the job delivered and every message of the result's dump is in *)
(* the job's record.                                                       *)
C15_NoDeliveredMessageLost ==
    \A id \in 1..MaxJobs :
        (poller[id].pc = "stopped" /\ RecordOf(history, id).id # 0)
        => poller[id].delivered \subseteq Messages(RecordOf(history, id).logs)

(* the step inserted exactly one record, at the front, ahead of the old *)
(* ones cut to the cap                                                 *)
InsertedOne ==
    /\ Len(history') = IF Len(history) < MAX_HISTORY_ITEMS
                       THEN Len(history) + 1 ELSE MAX_HISTORY_ITEMS
    /\ \A i \in 1..Len(history) : history[i].id # history'[1].id
    /\ \A i \in 2..Len(history') : history'[i] = history[i - 1]

(* C16: every submission attempt creates exactly one record and no other  *)
(* step creates any: a successful submission inserts one record with      *)
(* status running and starts the job's Poller, no other; a failed         *)
(* submission inserts one record with status failed and an error message  *)
(* and starts no Poller, and every status fetch belongs to a job that was *)
(* submitted successfully.                                                *)
C16_OneRecordPerSubmission ==
    [][/\ event'.kind = "submitOk"
          => /\ InsertedOne
             /\ history'[1].taskId = event'.id
             /\ history'[1].status = "running"
             /\ poller[event'.id].pc = "idle"
             /\ poller'[event'.id].pc = "fetch"
             /\ \A j \in 1..MaxJobs : j # event'.id => poller'[j] = poller[j]
       /\ event'.kind = "submitFail"
          => /\ InsertedOne
             /\ history'[1].taskId = event'.id
             /\ history'[1].status = "failed"
             /\ history'[1].error # Null
             /\ poller' = poller
       /\ event'.kind \notin {"submitOk", "submitFail"}
          => /\ Len(history') = Len(history)
             /\ \A i \in 1..Len(history) : history'[i].id = history[i].id
       /\ event'.kind \in {"fetchOk", "fetchFail", "timer"}
          => /\ event'.id \in 1..started
             /\ RecordOf(history', event'.id).id # 0
                   => RecordOf(history', event'.id).error # "launchErr"
      ]_vars

(* C16 witness: a failed submission has just been recorded next to the *)
(* record of a job that is being polled.                               *)
C16_Witness ==
    /\ event.kind = "submitFail"
    /\ Len(history) = 2
    /\ history[1].status = "failed" /\ history[1].error = "launchErr"
    /\ history[2].taskId = 1 /\ history[2].status = "running"
    /\ poller[1].pc = "fetch"

(* C17: when a Poller has been stopped by a failed status fetch, the      *)
(* history holds the job's record with status failed and an error        *)
(* message; and with no deletion by the user, the record of every job    *)
(* that was submitted is in the history.                                 *)
C17_AbortedJobKeepsRecord ==
    /\ \A id \in 1..SoloJobs :
          (event.kind = "fetchFail" /\ event.id = id /\ poller[id].pc = "stopped")
          => /\ RecordOf(history, id).id # 0
             /\ RecordOf(history, id).status = "failed"
             /\ RecordOf(history, id).error # Null
    /\ \A id \in 1..started : RecordOf(history, id).id # 0

(* C18: once the user has left the page a job was started on, the job's *)
(* Poller schedules no further status fetch: a fetch that was in flight *)
(* may still resolve, but no timer for a next one is set.               *)
C18_AbandonedPollerStopsScheduling ==
    [][\A id \in 1..MaxJobs :
          (poller[id].pc = "fetch" /\ poller[id].gen # gen)
          => poller'[id].pc # "timer"
      ]_vars

(* C19: the store calls of a Poller's step (updateHistoryItem and          *)
(* saveCompleteLogsToHistory on its own taskId) leave the number of        *)
(* records, their order and every record with another taskId as they were. *)
C19_PollerTouchesOnlyOwnRecord ==
    [][event'.kind \in {"fetchOk", "fetchFail", "resultOk", "resultFail"}
       => /\ Len(history') = Len(history)
          /\ \A i \in 1..Len(history) :
                /\ history'[i].id = history[i].id
                /\ history'[i].taskId = history[i].taskId
                /\ history[i].taskId # event'.id => history'[i] = history[i]
      ]_vars

(* C19 witness: a Poller has just changed its record while the Poller of *)
(* another job, whose record is also in the store, is active.            *)
C19_Witness ==
    /\ event.kind \in {"fetchOk", "resultOk"}
    /\ Len(calls) >= 1
    /\ Found(calls[1]) /\ calls[1].before # calls[1].after
    /\ \E j \in 1..MaxJobs :
          /\ j # event.id
          /\ Active(j)
          /\ RecordOf(history, j).id # 0

(* what each store function answers when it could not do its work *)
Sentinel(op) ==
    IF op = "save" THEN Ret("null", 0)
    ELSE IF op = "get" THEN Ret("list", <<>>)
    ELSE IF op = "export" THEN Ret("text", Stringify(<<>>))
    ELSE Ret("bool", FALSE)

(* C20: no store function lets a storage failure reach its caller: when   *)
(* reading, parsing or writing the snapshot throws, saveToHistory returns *)
(* null, updateHistoryItem, saveCompleteLogsToHistory and                 *)
(* deleteFromHistory return false, getHistory returns an empty list, and  *)
(* the snapshot is what it was before the call.                           *)
C20_PersistenceFailureContained ==
    [][\A i \in 1..Len(calls') :
          /\ calls'[i].ret # Throws
          /\ calls'[i].thrown
                => /\ calls'[i].ret = Sentinel(calls'[i].op)
                   /\ history' = history
      ]_vars

(* C20 witness: writing the snapshot failed in an updateHistoryItem call *)
(* that had found its record; the call answered false.                   *)
C20_Witness ==
    /\ Len(calls) = 1
    /\ calls[1].op = "update"
    /\ calls[1].fail = "write" /\ calls[1].thrown
    /\ calls[1].ret = Ret("bool", FALSE)
    /\ RecordOf(history, calls[1].taskId).id # 0

(* C21: when storage works, updateHistoryItem returns true exactly when a *)
(* record with the taskId is in the store; when none is, it returns false *)
(* and the store is left as it was, with no record added.                 *)
C21_UpdateReturnsFound ==
    [][\A i \in 1..Len(calls') :
          (calls'[i].op = "update" /\ calls'[i].fail = "none")
          => /\ calls'[i].ret.kind = "bool"
             /\ calls'[i].ret.val = (\E n \in 1..Len(history) :
                                        history[n].taskId = calls'[i].taskId)
             /\ ~calls'[i].ret.val => history' = history
      ]_vars

(* C21 witness: updateHistoryItem was called for a taskId that has no *)
(* record, while another record is in the store; it answered false.   *)
C21_Witness ==
    /\ Len(calls) = 1
    /\ calls[1].op = "update" /\ calls[1].fail = "none"
    /\ calls[1].arg.hasLogs /\ Len(calls[1].arg.logs) > 0
    /\ calls[1].ret = Ret("bool", FALSE)
    /\ Len(history) = 1
    /\ history[1].taskId # calls[1].taskId

(* C22: deleting a record by its id, with deleteFromHistory or with the *)
(* view's deleteItem, removes that record from the persisted store and  *)
(* leaves every other persisted record as it was, in the same order.    *)
C22_DeleteRemovesOnlyThatRecord ==
    [][event'.kind \in {"deleteItem", "deleteFromHistory"}
       => history' = SelectSeq(history, LAMBDA item : item.id # event'.id)
      ]_vars

(* C23: every updateHistoryItem or saveCompleteLogsToHistory call keeps   *)
(* every message the record's logs held before it, and a call whose log  *)
(* list is empty leaves the record's logs as they were.                  *)
C23_LogsMergeOnly ==
    \A i \in 1..Len(calls) :
        (calls[i].op \in {"update", "complete"} /\ Found(calls[i]))
        => LET L == IF calls[i].op = "complete" THEN calls[i].arg
                    ELSE calls[i].arg.logs
               given == calls[i].op = "complete" \/ calls[i].arg.hasLogs
           IN /\ Messages(calls[i].before.logs)
                    \subseteq Messages(calls[i].after.logs)
              /\ (given /\ L = <<>>)
                    => calls[i].after.logs = calls[i].before.logs

(* C24: in every state, a record that has a result has status completed *)
(* and a record that has an error message has status failed.            *)
C24_ResultAndErrorMatchStatus ==
    \A i \in 1..Len(history) :
        /\ history[i].result # Null => history[i].status = "completed"
        /\ history[i].error # Null => history[i].status = "failed"

(* C24 witness: the store holds a record with a result and a record with *)
(* an error message.                                                     *)
C24_Witness ==
    \E i, k \in 1..Len(history) :
        /\ history[i].result # Null /\ history[i].status = "completed"
        /\ history[k].error # Null /\ history[k].status = "failed"

(* C25: no record with status running has an endTime, and a store call  *)
(* on a record that has an endTime leaves that endTime as it is.        *)
C25_EndTimeSetOnce ==
    /\ \A i \in 1..Len(history) :
          history[i].status = "running" => history[i].endTime = 0
    /\ \A i \in 1..Len(calls) :
          (calls[i].op \in {"update", "complete"} /\ Found(calls[i])
              /\ calls[i].before.endTime # 0)
          => calls[i].after.endTime = calls[i].before.endTime

(* C25 witness: an update reached a record whose endTime had been set. *)
C25_Witness ==
    \E i \in 1..Len(calls) :
        /\ calls[i].op = "update" /\ Found(calls[i])
        /\ calls[i].before.endTime # 0
        /\ calls[i].before # calls[i].after

(* C26: exportHistory writes nothing, leaves the snapshot and so every  *)
(* record as it was, and returns the serialization of the very list     *)
(* getHistory returns in that state.                                    *)
C26_ExportIsPureRead ==
    [][\A i \in 1..Len(calls') :
          calls'[i].op = "export"
          => /\ history' = history
             /\ calls'[i].ret =
                  Ret("text", Stringify(getHistoryTry(history, calls'[i].fail).ret.val))
      ]_vars

(* C26 witness: exportHistory returned the serialization of a store of *)
(* two records, one of them with events.                               *)
C26_Witness ==
    /\ Len(calls) = 1
    /\ calls[1].op = "export" /\ calls[1].fail = "none"
    /\ Len(history) = 2
    /\ Len(calls[1].ret.val) = 2
    /\ \E i \in 1..2 : Len(history[i].logs) > 0

(* C27: each transition of a Poller makes exactly one store write on the *)
(* job's record: the finalization after a completed answer (result       *)
(* fetched or not), the finalization after a failed answer, the abort    *)
(* after a failed fetch, and each running answer that brings a message   *)
(* the record does not hold.                                             *)
C27_OneWritePerTransition ==
    [][\A id \in 1..MaxJobs :
          (event'.id = id /\ RecordOf(history, id).id # 0)
          => /\ event'.kind \in {"resultOk", "resultFail"} => Len(calls') = 1
             /\ (event'.kind = "fetchFail" /\ poller'[id].pc = "stopped")
                   => Len(calls') = 1
             /\ (event'.kind = "fetchOk" /\ event'.param.status = "failed")
                   => Len(calls') = 1
             /\ (/\ event'.kind = "fetchOk" /\ event'.param.status = "running"
                 /\ ~(Messages(event'.param.logs)
                        \subseteq Messages(RecordOf(history, id).logs)))
                   => Len(calls') = 1
      ]_vars

(* the store call an event of SpecPair stands for, applied to store h *)
Applied(h, e) ==
    IF e.kind = "update" THEN updateHistoryItem(h, e.id, e.param)
    ELSE saveCompleteLogsToHistory(h, e.id, e.param)

(* the store as it was before the call of the last step *)
StoreBefore ==
    [history EXCEPT ![FindIndex(history, event.id, 1)] = calls[1].before]

(* C28: store calls run one at a time, so no call's effect is lost: of  *)
(* two calls made one after the other, the second works on the store    *)
(* the first one left, and when they address different records the      *)
(* final store is the same as if they had been made in the other order. *)
C28_UpdatesSerializedAndCommute ==
    [][(event.kind \in {"update", "complete"}
           /\ event'.kind \in {"update", "complete"})
       => /\ history' = Applied(Applied(StoreBefore, event), event')
          /\ event.id # event'.id
                => history' = Applied(Applied(StoreBefore, event'), event)
      ]_vars

(* C28 witness: two calls addressed the two records and changed both. *)
C28_Witness ==
    /\ now = 3
    /\ event.kind = "update"
    /\ calls[1].before # calls[1].after
    /\ \E i \in 1..2 :
          /\ history[i].taskId # event.id
          /\ Len(history[i].logs) = 2

(* C29: a timeout that is retried leaves the store, and so the job's      *)
(* record, exactly as it was and makes no store call; it changes nothing  *)
(* but the Poller's counter, raised by one, and the one timer it sets for *)
(* the next fetch.                                                        *)
C29_RetriedTimeoutChangesNothing ==
    [][\A id \in 1..SoloJobs :
          (/\ poller[id].pc = "fetch"
           /\ event'.kind = "fetchFail" /\ event'.id = id
           /\ event'.param = "ECONNABORTED"
           /\ poller[id].attempt < maxAttempts)
          => /\ history' = history
             /\ calls' = <<>>
             /\ comp' = comp
             /\ now' = now
             /\ poller' = [poller EXCEPT ![id] =
                             [@ EXCEPT !.attempt = @ + 1, !.pc = "timer",
                                       !.streak = @ + 1]]
      ]_vars

(* C29 witness: a timeout has just been retried for a job whose record *)
(* holds polled events.                                                *)
C29_Witness ==
    /\ event.kind = "fetchFail" /\ event.param = "ECONNABORTED"
    /\ poller[event.id].pc = "timer"
    /\ poller[event.id].attempt >= 1
    /\ RecordOf(history, event.id).status = "running"
    /\ Len(RecordOf(history, event.id).logs) >= 2

(* C30: a Poller waits for one thing at a time, a status fetch, a timer or *)
(* the result fetch. An answer with status running sets the one timer for  *)
(* the next fetch, and so does a retried timeout; the timer issues the one *)
(* fetch; an answer completed or failed and an abort set no timer, and     *)
(* from then on the Poller issues no status fetch.                         *)
C30_OneFetchAtATime ==
    [][\A id \in 1..SoloJobs :
          /\ (event'.kind = "fetchOk" /\ event'.id = id)
                => /\ poller[id].pc = "fetch"
                   /\ event'.param.status = "running" => poller'[id].pc = "timer"
                   /\ event'.param.status = "completed" => poller'[id].pc = "result"
                   /\ event'.param.status = "failed" => poller'[id].pc = "stopped"
          /\ (event'.kind = "fetchFail" /\ event'.id = id)
                => /\ poller[id].pc = "fetch"
                   /\ poller'[id].pc = IF ShouldRetry(event'.param, poller[id].attempt)
                                       THEN "timer" ELSE "stopped"
          /\ (event'.kind = "timer" /\ event'.id = id)
                => poller[id].pc = "timer" /\ poller'[id].pc = "fetch"
          /\ poller[id].pc \in {"result", "stopped"}
                => poller'[id].pc \in {"result", "stopped"}
          /\ poller'[id].pc \in {"idle", "fetch", "timer", "result", "stopped"}
      ]_vars

(* C30 witness: after a running answer and a retried timeout, the timer *)
(* has fired and the job's next fetch is in flight.                     *)
C30_Witness ==
    /\ event.kind = "timer"
    /\ poller[event.id].pc = "fetch"
    /\ poller[event.id].polls >= 1
    /\ poller[event.id].attempt >= 1

HasErrorEvent(logs) == \E n \in 1..Len(logs) : logs[n].type = "error"

(* C31: after a status answer failed, the job's record has status failed  *)
(* and an endTime, and the page's own error event is in the record's logs *)
(* exactly when the answers of the backend brought no error event.        *)
C31_SyntheticErrorOnlyIfNoneSupplied ==
    \A id \in 1..SoloJobs :
        (/\ event.kind = "fetchOk" /\ event.id = id
         /\ event.param.status = "failed"
         /\ RecordOf(history, id).id # 0)
        => LET r == RecordOf(history, id) IN
           /\ r.status = "failed"
           /\ r.endTime # 0
           /\ "failMarker" \in Messages(r.logs) <=> ~HasErrorEvent(event.param.logs)

(* C32: while a Poller waits for a fetch or a timer, what its next step   *)
(* depends on is determined by the job's record; so a step that changes   *)
(* the Poller's timeout counter and leaves it waiting changes the record. *)
C32_PollerStateInRecord ==
    [][\A id \in 1..SoloJobs :
          (/\ poller'[id].pc \in {"fetch", "timer"}
           /\ RecordOf(history', id).id # 0
           /\ poller'[id].attempt # poller[id].attempt)
          => RecordOf(history', id) # RecordOf(history, id)
      ]_vars

GivesLogs(e) == e.kind = "complete" \/ e.param.hasLogs

(* C33: when two event sequences are merged into a record one after the *)
(* other, the set of messages the record ends with is the same as if    *)
(* they had been merged in the other order.                             *)
C33_MergeCommutesInContent ==
    [][(/\ event.kind \in {"update", "complete"} /\ GivesLogs(event)
        /\ event'.kind \in {"update", "complete"} /\ GivesLogs(event')
        /\ event'.id = event.id)
       => Messages(RecordOf(history', event.id).logs)
            = Messages(RecordOf(Applied(Applied(StoreBefore, event'), event),
                                event.id).logs)
      ]_vars

(* C34: in every state, every record whose status is completed or failed *)
(* has an endTime.                                                       *)
C34_TerminalHasEndTime ==
    \A i \in 1..Len(history) :
        IsTerminal(history[i].status) => history[i].endTime # 0

(* C35: every event a Poller's store call adds to its job's record comes *)
(* from that job: from the status answer being handled, from the result  *)
(* dump, or it is the one event the finalization or abort creates; no    *)
(* event of an earlier job gets into the record.                         *)
C35_EventsOriginateFromOwnJob ==
    \A i \in 1..Len(calls) :
        (/\ event.kind \in {"fetchOk", "fetchFail", "resultOk", "resultFail"}
         /\ calls[i].op \in {"update", "complete"} /\ Found(calls[i]))
        => LET added == Range(calls[i].after.logs) \ Range(calls[i].before.logs)
           IN IF calls[i].op = "complete" THEN added \subseteq Range(calls[i].arg)
              ELSE IF calls[i].arg.endTime # 0
                   THEN added \subseteq {calls[i].arg.logs[Len(calls[i].arg.logs)]}
                   ELSE added \subseteq Range(event.param.logs)

(* C36: a Poller that has stopped fetching has left its job's record, if *)
(* the store holds it, with a status other than running, whatever the    *)
(* status value of the answer that stopped it.                           *)
C36_StoppedPollerLeftTerminalStatus ==
    \A id \in 1..SoloJobs :
        (poller[id].pc = "stopped" /\ RecordOf(history, id).id # 0)
        => RecordOf(history, id).status # "running"

(* the backend has answered a status fetch of job id with completed or *)
(* failed, or a status fetch of the job failed without timing out      *)
TerminalAnswer(id) ==
    /\ event.id = id
    /\ \/ event.kind = "fetchOk" /\ IsTerminal(event.param.status)
       \/ event.kind = "fetchFail" /\ event.param # "ECONNABORTED"

Settled(id) ==
    /\ poller[id].pc = "stopped"
    /\ RecordOf(history, id).id # 0 => IsTerminal(RecordOf(history, id).status)

(* C37: when every fetch in flight settles and every timer fires, a job  *)
(* whose status fetch was answered completed or failed, or failed        *)
(* without timing out, sees its Poller stop, and from some moment on its *)
(* record, as long as the store holds it, has status completed or failed. *)
C37_TerminalAnswerSettlesRecord ==
    \A id \in 1..MaxJobs : TerminalAnswer(id) ~> []Settled(id)

====
